---- MODULE Spec2Model ----
(***************************************************************************)
(* Model of package e (github.com/whynot00/e): the error wrapper with a    *)
(* flat, newest-first frame list and ordered fields (Wrap, WrapWithMessage,*)
(* WrapWithFields) and the panic-recovery helpers (WrapRecovered, Recover, *)
(* RecoverToChannel).                                                      *)
(*                                                                         *)
(* Go strings that the code inspects character by character (function     *)
(* names) are sequences of one-character strings.  Error messages are     *)
(* sequences of text pieces, so that a message built by a wrapping layer   *)
(* (fmt.Errorf("ctx: %w", err)) differs from the message it wraps.         *)
(***************************************************************************)
EXTENDS Integers, Sequences, FiniteSets, TLC

\* ------------------------------------------------------------------ bounds
MaxObjs == 4
MaxWraps == 2
MaxPanics == 1
MaxCap == 1
MaxLen == 4

\* the deepest recursion of a guarded function
MaxCalls == 30

\* ------------------------------------------------- constants of the program
skipFrames == 3
maxDepth == 32
exitStatus == 1

\* ------------------------------------------------------------ Go strings
Min(a, b) == IF a < b THEN a ELSE b

HasPrefix(s, p) == Len(p) <= Len(s) /\ SubSeq(s, 1, Len(p)) = p

Contains(s, sub) ==
  \E i \in 0..(Len(s) - Len(sub)) : SubSeq(s, i + 1, i + Len(sub)) = sub

\* strings.LastIndex for a one-character separator; 0-based, -1 when absent
LastIndex(s, c) ==
  IF \E i \in 1..Len(s) : s[i] = c
  THEN (CHOOSE i \in 1..Len(s) : s[i] = c /\ \A j \in (i + 1)..Len(s) : s[j] # c) - 1
  ELSE -1

\* fn[i+1:] for a 0-based index i
SliceFrom(s, i) == SubSeq(s, i + 2, Len(s))

FnMainRun == <<"m", "a", "i", "n", ".", "r", "u", "n">>
FnSvcDo == <<"a", ".", "i", "o", "/", "s", "v", "c", ".", "(", "*", "T", ")", ".", "D", "o">>
FnMainHandle == <<"m", "a", "i", "n", ".", "h", "a", "n", "d", "l", "e">>
FnMainRecoverJobs == <<"m", "a", "i", "n", ".", "R", "e", "c", "o", "v", "e", "r", "J", "o", "b", "s">>
FnMainDescend == <<"m", "a", "i", "n", ".", "d", "e", "s", "c", "e", "n", "d">>
FnGopanic == <<"r", "u", "n", "t", "i", "m", "e", ".", "g", "o", "p", "a", "n", "i", "c">>
FnGoexit == <<"r", "u", "n", "t", "i", "m", "e", ".", "g", "o", "e", "x", "i", "t">>
FnCallers == <<"r", "u", "n", "t", "i", "m", "e", ".", "C", "a", "l", "l", "e", "r", "s">>
FnCaptureStackTrace == <<"g", "i", "t", "h", "u", "b", ".", "c", "o", "m", "/", "w", "h", "y", "n", "o", "t", "0", "0", "/", "e", ".", "c", "a", "p", "t", "u", "r", "e", "S", "t", "a", "c", "k", "T", "r", "a", "c", "e">>
FnWrapRecovered == <<"g", "i", "t", "h", "u", "b", ".", "c", "o", "m", "/", "w", "h", "y", "n", "o", "t", "0", "0", "/", "e", ".", "W", "r", "a", "p", "R", "e", "c", "o", "v", "e", "r", "e", "d">>
FnRecover == <<"g", "i", "t", "h", "u", "b", ".", "c", "o", "m", "/", "w", "h", "y", "n", "o", "t", "0", "0", "/", "e", ".", "R", "e", "c", "o", "v", "e", "r">>
FnRecoverToChannel == <<"g", "i", "t", "h", "u", "b", ".", "c", "o", "m", "/", "w", "h", "y", "n", "o", "t", "0", "0", "/", "e", ".", "R", "e", "c", "o", "v", "e", "r", "T", "o", "C", "h", "a", "n", "n", "e", "l">>
StrRuntimeDot == <<"r", "u", "n", "t", "i", "m", "e", ".">>
StrSlashLogSlogDot == <<"/", "l", "o", "g", "/", "s", "l", "o", "g", ".">>
StrLogSlogDot == <<"l", "o", "g", "/", "s", "l", "o", "g", ".">>
StrEncodingJsonDot == <<"e", "n", "c", "o", "d", "i", "n", "g", "/", "j", "s", "o", "n", ".">>
StrDotRecover == <<".", "R", "e", "c", "o", "v", "e", "r">>
StrDotSlogGroup == <<".", "S", "l", "o", "g", "G", "r", "o", "u", "p">>

\* simplifyFuncName cutting at the first "." of the last path segment, as in
\* the revision that preceded the one modelled here
simplifyFuncNameFirstDot(fn) ==
  LET i == LastIndex(fn, "/")
      f1 == IF i # -1 THEN SliceFrom(fn, i) ELSE fn
  IN IF \E k \in 1..Len(f1) : f1[k] = "."
     THEN SubSeq(f1, (CHOOSE k \in 1..Len(f1) :
                         f1[k] = "." /\ \A m \in 1..(k - 1) : f1[m] # ".") + 1, Len(f1))
     ELSE f1

\* simplifyFuncName: cut after the last "/", then after the last "."
simplifyFuncName(fn) ==
  LET i == LastIndex(fn, "/")
      f1 == IF i # -1 THEN SliceFrom(fn, i) ELSE fn
      j == LastIndex(f1, ".")
  IN IF j # -1 THEN SliceFrom(f1, j) ELSE f1

isInternalFrame(function) ==
  \/ HasPrefix(function, StrRuntimeDot)
  \/ Contains(function, StrSlashLogSlogDot)
  \/ Contains(function, StrLogSlogDot)
  \/ Contains(function, StrEncodingJsonDot)
  \/ Contains(function, StrDotRecover)
  \/ Contains(function, StrDotSlogGroup)

\* ------------------------------------------------------------- data model
\* type frame struct { funcName; file; line; message }
frame(fn, file, line, message) ==
  [funcName |-> fn, file |-> file, line |-> line, message |-> message]

\* Field(key, value): a Fields holding one key/value pair
Field(key, value) == <<[Key |-> key, Value |-> value]>>

\* ErrorWrapper.fields is a *Fields: ptr = FALSE is the nil pointer
NilFields == [ptr |-> FALSE, list |-> <<>>]

NilErr == 0

\* values on the heap: plain failures (errors.New), layers that wrap another
\* failure (Unwrap() returns inner), and *ErrorWrapper instances
PlainError(m) ==
  [kind |-> "plain", msg |-> m, inner |-> NilErr, frames |-> <<>>, fields |-> NilFields]

WrappingError(m, in) ==
  [kind |-> "wrapping", msg |-> m, inner |-> in, frames |-> <<>>, fields |-> NilFields]

\* type ErrorWrapper struct { err; frames; fields }
ErrorWrapper(err, frames, fields) ==
  [kind |-> "ew", msg |-> <<>>, inner |-> err, frames |-> frames, fields |-> fields]

IsWrapper(h, id) == id # NilErr /\ id <= Len(h) /\ h[id].kind = "ew"

RECURSIVE Error(_, _)
\* err.Error(): ErrorWrapper.Error returns e.err.Error()
Error(h, id) ==
  IF id = NilErr \/ id > Len(h) THEN <<"<nil>">>
  ELSE IF h[id].kind = "plain" THEN h[id].msg
  ELSE IF h[id].kind = "wrapping" THEN h[id].msg \o Error(h, h[id].inner)
  ELSE Error(h, h[id].inner)

\* a type assertion err.(*ErrorWrapper) in place of errors.As
errorsAsDirectOnly(h, id) ==
  IF id = NilErr \/ id > Len(h) THEN NilErr
  ELSE IF h[id].kind = "ew" THEN id
  ELSE NilErr

RECURSIVE errorsAs(_, _)
\* errors.As(err, &ew): the first *ErrorWrapper on err's Unwrap chain, or nil
errorsAs(h, id) ==
  IF id = NilErr \/ id > Len(h) THEN NilErr
  ELSE IF h[id].kind = "ew" THEN id
  ELSE IF h[id].kind = "wrapping" THEN errorsAs(h, h[id].inner)
  ELSE NilErr

\* runtime.Caller(skip) at a call site: (pc, file, line, ok)
CallSites ==
  { [ok |-> TRUE, fn |-> FnSvcDo, file |-> "svc.go", line |-> 20],
    [ok |-> FALSE, fn |-> <<>>, file |-> "", line |-> 0] }

OkSites == {s \in CallSites : s.ok}

\* the frame wrapWithSkip builds from runtime.Caller / runtime.FuncForPC
newFrame(site, msg) ==
  frame(simplifyFuncName(site.fn),
        IF site.ok THEN site.file ELSE "unknown",
        IF site.ok THEN site.line ELSE 0,
        msg)

\* --------------------------------------------------------- wrap operations
\* Each operation maps the heap h to [heap, res]: the heap after the call and
\* the returned error.

\* extendWrapper with the frame added at the end of the list
extendWrapperFrameLast(h, ew, fr, flds) ==
  [h EXCEPT ![ew].frames = @ \o <<fr>>,
            ![ew].fields = IF flds.ptr /\ Len(flds.list) > 0
                           THEN [ptr |-> TRUE, list |-> @.list \o flds.list]
                           ELSE @]

\* extendWrapper with the new fields replacing the stored ones
extendWrapperFieldsReplaced(h, ew, fr, flds) ==
  [h EXCEPT ![ew].frames = <<fr>> \o @,
            ![ew].fields = IF flds.ptr /\ Len(flds.list) > 0
                           THEN [ptr |-> TRUE, list |-> flds.list]
                           ELSE @]

\* the mutation of an existing wrapper: prepend the frame, append the fields
extendWrapper(h, ew, fr, flds) ==
  [h EXCEPT ![ew].frames = <<fr>> \o @,
            ![ew].fields = IF flds.ptr /\ Len(flds.list) > 0
                           THEN [ptr |-> TRUE, list |-> @.list \o flds.list]
                           ELSE @]

wrapWithSkip(h, err, site, msg, flds) ==
  LET fr == newFrame(site, msg)
      ew == errorsAs(h, err)
  IN IF ew # NilErr
     THEN [heap |-> extendWrapper(h, ew, fr, flds), res |-> ew]
     ELSE [heap |-> Append(h, ErrorWrapper(err, <<fr>>, flds)), res |-> Len(h) + 1]

Wrap(h, err, site) ==
  IF err = NilErr THEN [heap |-> h, res |-> NilErr]
  ELSE wrapWithSkip(h, err, site, "", NilFields)

WrapWithMessage(h, err, msg, site) ==
  IF err = NilErr THEN [heap |-> h, res |-> NilErr]
  ELSE wrapWithSkip(h, err, site, msg, NilFields)

RECURSIVE mergeFields(_)
\* merged.list = append(merged.list, f.list...) over the variadic field sets
mergeFields(fields) ==
  IF fields = <<>> THEN <<>> ELSE Head(fields) \o mergeFields(Tail(fields))

\* WrapWithFields without the nil check
WrapWithFieldsNoNilCheck(h, err, fields, site) ==
  wrapWithSkip(h, err, site, "", [ptr |-> TRUE, list |-> mergeFields(fields)])

WrapWithFields(h, err, fields, site) ==
  IF err = NilErr THEN [heap |-> h, res |-> NilErr]
  ELSE wrapWithSkip(h, err, site, "", [ptr |-> TRUE, list |-> mergeFields(fields)])

\* Fields.Get: the value of the first pair with key k, nil when there is none
NilValue == 0

Get(list, k) ==
  IF \E i \in 1..Len(list) : list[i].Key = k
  THEN list[CHOOSE i \in 1..Len(list) :
              list[i].Key = k /\ \A j \in 1..(i - 1) : list[j].Key # k].Value
  ELSE NilValue

\* (e *ErrorWrapper).Fields(): a copy of the list, the zero value when nil
FieldsOf(h, ew) == IF h[ew].fields.ptr THEN h[ew].fields.list ELSE <<>>

\* (e *ErrorWrapper).StackTrace()
StackTrace(h, ew) == h[ew].frames

\* ----------------------------------------------------------- panic recovery
\* *RecoverOpts: isNil = TRUE is the nil pointer
NilOpts ==
  [isNil |-> TRUE, WithoutStack |-> FALSE, RecoverOnly |-> FALSE, Fatal |-> FALSE]

RecoverOpts(ws, ro, fa) ==
  [isNil |-> FALSE, WithoutStack |-> ws, RecoverOnly |-> ro, Fatal |-> fa]

AllOpts ==
  {NilOpts} \cup {RecoverOpts(ws, ro, fa) : ws \in BOOLEAN, ro \in BOOLEAN, fa \in BOOLEAN}

\* a value of type any given to panic(): a string, an int or an error
StringValue(s) == [t |-> "string", s |-> s, n |-> 0, id |-> NilErr]
IntValue(n) == [t |-> "int", s |-> "", n |-> n, id |-> NilErr]
ErrorValue(id) == [t |-> "error", s |-> "", n |-> 0, id |-> id]
NoValue == [t |-> "nil", s |-> "", n |-> 0, id |-> NilErr]

\* formatPanicMessage: v.Error() for an error, fmt.Sprintf("%v", v) otherwise
formatPanicMessage(h, r) ==
  IF r.t = "error" THEN Error(h, r.id)
  ELSE IF r.t = "string" THEN <<r.s>>
  ELSE <<ToString(r.n)>>

\* a frame of the call stack as runtime.CallersFrames reports it
RawFrame(fn, file, line) == [Function |-> fn, File |-> file, Line |-> line]

\* the three frames runtime.Callers(skipFrames, pcs) skips
HelperFrames ==
  << RawFrame(FnCallers, "extern.go", 331),
     RawFrame(FnCaptureStackTrace, "recover.go", 112),
     RawFrame(FnWrapRecovered, "recover.go", 37) >>

\* call stacks below WrapRecovered: called from a deferred Recover or
\* RecoverToChannel during a panic, or called directly by application code
StackUnderRecover ==
  << RawFrame(FnRecover, "recover.go", 55),
     RawFrame(FnGopanic, "panic.go", 770),
     RawFrame(FnMainRun, "main.go", 10),
     RawFrame(FnGoexit, "asm.s", 1650) >>

StackUnderRecoverToChannel ==
  << RawFrame(FnRecoverToChannel, "recover.go", 78),
     RawFrame(FnGopanic, "panic.go", 770),
     RawFrame(FnSvcDo, "svc.go", 20),
     RawFrame(FnMainRun, "main.go", 12),
     RawFrame(FnGoexit, "asm.s", 1650) >>

\* the stack below WrapRecovered when the guarded function is the body of a
\* goroutine,  go RecoverJobs() , and panics
StackUnderRecoverInWorker ==
  << RawFrame(FnRecover, "recover.go", 55),
     RawFrame(FnGopanic, "panic.go", 770),
     RawFrame(FnMainRecoverJobs, "jobs.go", 7),
     RawFrame(FnGoexit, "asm.s", 1650) >>

StackDirect ==
  << RawFrame(FnMainHandle, "main.go", 30),
     RawFrame(FnMainRun, "main.go", 14),
     RawFrame(FnGoexit, "asm.s", 1650) >>

\* pcs[:n] with n = runtime.Callers(skipFrames, pcs), len(pcs) = maxDepth
callers(stack) ==
  LET below == SubSeq(stack, skipFrames + 1, Len(stack))
  IN SubSeq(below, 1, Min(Len(below), maxDepth))

RECURSIVE filterFrames(_)
\* the body of the loop: skip internal frames, append the others
filterFrames(raw) ==
  IF raw = <<>> THEN <<>>
  ELSE LET fr == Head(raw)
       IN IF isInternalFrame(fr.Function)
          THEN filterFrames(Tail(raw))
          ELSE <<frame(simplifyFuncName(fr.Function), fr.File, fr.Line, "")>>
               \o filterFrames(Tail(raw))

\* captureStackTrace: the loop leaves at the frame for which Next reports
\* more = false, which is the last frame of pcs[:n]
captureStackTrace(stack) ==
  LET pcs == callers(stack)
  IN IF pcs = <<>> THEN <<>> ELSE filterFrames(SubSeq(pcs, 1, Len(pcs) - 1))

\* nil options taken as "no stack"
wantsStackNilOff(opts) == ~opts.isNil /\ ~opts.WithoutStack

\* opts == nil || !opts.WithoutStack
wantsStack(opts) == opts.isNil \/ ~opts.WithoutStack

\* nil options taken as "no delivery"
wantsDeliveryNilOff(opts) == ~opts.isNil /\ ~opts.RecoverOnly

\* RecoverOnly ignored
wantsDeliveryAlways(opts) == TRUE

\* opts == nil || !opts.RecoverOnly
wantsDelivery(opts) == opts.isNil \/ ~opts.RecoverOnly

\* Fatal skipped when nothing was delivered
wantsExitUnlessRecoverOnly(opts) == ~opts.isNil /\ opts.Fatal /\ ~opts.RecoverOnly

\* opts != nil && opts.Fatal
wantsExit(opts) == ~opts.isNil /\ opts.Fatal

\* WrapRecovered passing the recovered failure through wrapWithSkip's
\* errors.As branch: an existing Wrapped Error is extended and returned
WrapRecoveredExtending(h, opts, r, stack) ==
  LET message == formatPanicMessage(h, r)
      stk == IF wantsStack(opts) THEN captureStackTrace(stack) ELSE <<>>
      ew == IF r.t = "error" THEN errorsAs(h, r.id) ELSE NilErr
      h1 == Append(h, PlainError(message))
  IN IF ew # NilErr
     THEN [heap |-> [h EXCEPT ![ew].frames = stk \o @], res |-> ew]
     ELSE [heap |-> Append(h1, ErrorWrapper(Len(h1), stk, NilFields)), res |-> Len(h1) + 1]

\* WrapRecovered: a new ErrorWrapper around errors.New(message)
WrapRecovered(h, opts, r, stack) ==
  LET message == formatPanicMessage(h, r)
      stk == IF wantsStack(opts) THEN captureStackTrace(stack) ELSE <<>>
      h1 == Append(h, PlainError(message))
  IN [heap |-> Append(h1, ErrorWrapper(Len(h1), stk, NilFields)), res |-> Len(h1) + 1]

\* a channel of error: made = FALSE is the nil channel; buf holds the queued
\* values; waiting = TRUE when a receiver is parked on the channel
NilChan == [made |-> FALSE, cap |-> 0, buf |-> <<>>, waiting |-> FALSE]

makeChan(c) == [made |-> TRUE, cap |-> c, buf |-> <<>>, waiting |-> FALSE]

\* the plain statement  errChan <- err : the goroutine parks until a
\* receiver or a buffer slot turns up
sendBlocking(c, v) ==
  IF c.made /\ c.waiting
  THEN [ch |-> [c EXCEPT !.waiting = FALSE], sent |-> TRUE, handed |-> TRUE, parked |-> FALSE]
  ELSE IF c.made /\ Len(c.buf) < c.cap
  THEN [ch |-> [c EXCEPT !.buf = Append(@, v)], sent |-> TRUE, handed |-> FALSE, parked |-> FALSE]
  ELSE [ch |-> c, sent |-> FALSE, handed |-> FALSE, parked |-> TRUE]

\* select { case errChan <- err: default: }  as  [ch, sent, handed, parked]
\* sent: the send case ran; handed: the value went straight to a parked
\* receiver; parked: the goroutine is left waiting in the statement, which
\* the default case rules out
trySend(c, v) ==
  IF c.made /\ c.waiting
  THEN [ch |-> [c EXCEPT !.waiting = FALSE], sent |-> TRUE, handed |-> TRUE, parked |-> FALSE]
  ELSE IF c.made /\ Len(c.buf) < c.cap
  THEN [ch |-> [c EXCEPT !.buf = Append(@, v)], sent |-> TRUE, handed |-> FALSE, parked |-> FALSE]
  ELSE [ch |-> c, sent |-> FALSE, handed |-> FALSE, parked |-> FALSE]

\* ------------------------------------------------------------------ state
VARIABLES
  heap,      \* the failures allocated so far; a failure is its index, 0 is nil;
             \* it starts with one plain failure, errors.New("e1")
  last,      \* the latest call: [op, arg, res]
  origin,    \* per failure: the call that allocated it
  hist,      \* per failure: the wrap calls that returned it, in call order
  attached,  \* per failure: the fields handed to WrapWithFields, in call order
  nwraps,    \* number of wrap calls on a non-nil failure
  pc,        \* position of the goroutine that runs guarded functions
  cur,       \* the guarded call in progress
  events,    \* what the guard of the current call has done, in order
  npanics,   \* number of guarded calls started
  ch,        \* the channel handed to RecoverToChannel
  received,  \* the values receivers have taken from the channel
  dropped,   \* the errors whose send fell to the default case
  exitCode,  \* -1 while the process runs, the status given to os.Exit after
  shown,     \* the latest rendering: SlogGroup, SlogGroupNamed or MarshalJSON
  handed,    \* the slice an accessor returned to its caller
  named,     \* the latest call of simplifyFuncName: [fn, res]
  units      \* the concurrent units that wrap one Wrapped Error at a time

vars ==
  <<heap, last, origin, hist, attached, nwraps, pc, cur, events, npanics, ch, received,
    dropped, exitCode, shown, handed, named, units>>

wrapVars == <<heap, last, origin, hist, attached, nwraps>>
recoverVars == <<pc, cur, events, npanics, ch, received, dropped, exitCode>>
renderVars == <<shown, handed, named, units>>

Running == -1

FrameMessages == {"a"}
\* the variadic argument lists given to WrapWithFields
FieldArgs ==
  { <<>>,
    <<Field("k2", 2), Field("k1", 3)>>,
    <<<<>>, Field("k1", 1)>> }
ErrorValues(h) == {ErrorValue(id) : id \in 1..Len(h)}
WrapperValues(h) == {ErrorValue(id) : id \in {i \in 1..Len(h) : h[i].kind = "ew"}}
\* the values the guarded function panics with; failure 1 is the plain
\* failure allocated at the start
PanicValues == {StringValue("boom"), IntValue(42), ErrorValue(1)}
Errs(h) == 0..Len(h)

\* cur: the guard installed with defer, its options, the value the function
\* panicked with (NoValue when it returned normally), the call stack at the
\* guard, whether the panic is still unwinding, the error the guard built and
\* the channel as the select statement found it
NoCall ==
  [guard |-> "none", opts |-> NilOpts, r |-> NoValue, stack |-> <<>>,
   panicking |-> FALSE, err |-> NilErr, chSeen |-> NilChan]

\* no rendering yet: n alternates between 0 and 1 with every rendering, gen is the number of wrap
\* calls and allocations before the rendering, again tells that the
\* rendering before it was the same call with nothing wrapped in between
NoRendering ==
  [op |-> "none", arg |-> NilErr, name |-> "", out |-> <<>>, n |-> 0, gen |-> 0,
   again |-> FALSE]

\* no slice handed out yet: of is the Wrapped Error, elems the elements of
\* the slice, shared tells that it is the Wrapped Error's own slice, with its
\* backing array, calls the number of wrap calls that had returned the
\* Wrapped Error by then, touched that the caller has written to the slice
NoSlice ==
  [op |-> "none", of |-> NilErr, elems |-> <<>>, shared |-> FALSE, calls |-> 0,
   touched |-> FALSE]

\* two goroutines; a unit is idle, has read ew.frames (pc = "read") or has
\* written it back (pc = "done"); fr is the frame of its call, seen the list
\* it read, raced tells that its call overlapped the other unit's
Units == {1, 2}

IdleUnit ==
  [pc |-> "idle", ew |-> NilErr, fr |-> frame(<<>>, "", 0, ""), seen |-> <<>>,
   raced |-> FALSE]

Init ==
  /\ heap = <<PlainError(<<"e1">>)>>
  /\ last = [op |-> "none", arg |-> NilErr, res |-> NilErr]
  /\ origin = <<"New">>
  /\ hist = <<<<>>>>
  /\ attached = <<<<>>>>
  /\ nwraps = 0
  /\ pc = "idle"
  /\ cur = NoCall
  /\ events = <<>>
  /\ npanics = 0
  /\ ch = NilChan
  /\ received = {}
  /\ dropped = {}
  /\ exitCode = Running
  /\ shown = NoRendering
  /\ handed = NoSlice
  /\ named = [fn |-> <<>>, res |-> <<>>]
  /\ units = [u \in Units |-> IdleUnit]

\* ---------------------------------------------------------------- actions
\* fmt.Errorf("ctx: %w", err) in application code: a layer whose Unwrap is err
Errorf(err) ==
  /\ exitCode = Running
  /\ Len(heap) < MaxObjs
  /\ err \in 1..Len(heap)
  /\ heap' = Append(heap, WrappingError(<<"ctx: ">>, err))
  /\ origin' = Append(origin, "Errorf")
  /\ hist' = Append(hist, <<>>)
  /\ attached' = Append(attached, <<>>)
  /\ last' = [op |-> "Errorf", arg |-> err, res |-> Len(heap) + 1]
  /\ UNCHANGED <<nwraps, pc, cur, events, npanics, ch, received, dropped, exitCode>>
  /\ UNCHANGED renderVars

RECURSIVE Flatten(_)
\* the fields of a call, in argument order
Flatten(fields) ==
  IF fields = <<>> THEN <<>> ELSE Head(fields) \o Flatten(Tail(fields))

\* the bookkeeping of a wrap call that returned r: the call and its fields
\* are added to the history of the instance the call returned
Record(op, err, r, site, msg, fields) ==
  LET call == [op |-> op, arg |-> err, site |-> site, msg |-> msg]
  IN /\ heap' = r.heap
     /\ last' = [op |-> op, arg |-> err, res |-> r.res]
     /\ IF err = NilErr \/ r.res = NilErr
        THEN UNCHANGED <<origin, hist, attached, nwraps>>
        ELSE /\ nwraps' = nwraps + 1
             /\ IF Len(r.heap) > Len(heap)
                THEN /\ origin' = Append(origin, "wrap")
                     /\ hist' = Append(hist, <<call>>)
                     /\ attached' = Append(attached, Flatten(fields))
                ELSE /\ origin' = origin
                     /\ hist' = [hist EXCEPT ![r.res] = Append(@, call)]
                     /\ attached' = [attached EXCEPT ![r.res] = @ \o Flatten(fields)]
     /\ UNCHANGED recoverVars
     /\ UNCHANGED renderVars

DoWrap(err, site) ==
  /\ exitCode = Running
  /\ nwraps < MaxWraps
  /\ LET r == Wrap(heap, err, site)
     IN /\ Len(r.heap) <= MaxObjs
        /\ Record("Wrap", err, r, site, "", <<>>)

DoWrapWithMessage(err, msg, site) ==
  /\ exitCode = Running
  /\ nwraps < MaxWraps
  /\ LET r == WrapWithMessage(heap, err, msg, site)
     IN /\ Len(r.heap) <= MaxObjs
        /\ Record("WrapWithMessage", err, r, site, msg, <<>>)

DoWrapWithFields(err, fields, site) ==
  /\ exitCode = Running
  /\ nwraps < MaxWraps
  /\ LET r == WrapWithFields(heap, err, fields, site)
     IN /\ Len(r.heap) <= MaxObjs
        /\ Record("WrapWithFields", err, r, site, "", fields)

WrapOps == {"Wrap", "WrapWithMessage", "WrapWithFields"}

\* WrapRecovered called directly by application code
DoWrapRecovered(opts, r) ==
  /\ exitCode = Running
  /\ Len(heap) + 2 <= MaxObjs
  /\ LET w == WrapRecovered(heap, opts, r, HelperFrames \o StackDirect)
     IN /\ heap' = w.heap
        /\ last' = [op |-> "WrapRecovered", arg |-> r.id, res |-> w.res]
        /\ origin' = origin \o <<"New", "WrapRecovered">>
        /\ hist' = hist \o <<<<>>, <<>>>>
        /\ attached' = attached \o <<<<>>, <<>>>>
  /\ UNCHANGED <<nwraps, pc, cur, events, npanics, ch, received, dropped, exitCode>>
  /\ UNCHANGED renderVars
\* ------------------------------------------------- guarded function calls
Guards == {"Recover", "RecoverToChannel"}

StackAt(guard) ==
  HelperFrames \o (IF guard = "Recover" THEN StackUnderRecover
                   ELSE StackUnderRecoverToChannel)

\* a function runs with  defer Recover(opts, callback)  or
\* defer RecoverToChannel(opts, ch)  and either returns (r = NoValue) or
\* panics with r; its deferred guard is about to run
GuardedCall(guard, opts, r) ==
  /\ exitCode = Running
  /\ pc = "idle"
  /\ npanics < MaxPanics
  /\ pc' = "deferred"
  /\ cur' = [guard |-> guard, opts |-> opts, r |-> r, stack |-> StackAt(guard),
             panicking |-> (r # NoValue), err |-> NilErr, chSeen |-> NilChan]
  /\ events' = <<>>
  /\ npanics' = npanics + 1
  /\ UNCHANGED <<heap, last, origin, hist, attached, nwraps, ch, received, dropped, exitCode>>
  /\ UNCHANGED renderVars

\* go RecoverJobs(): a goroutine whose body RecoverJobs runs with
\* defer Recover(opts, callback)  and panics with r
GuardedWorker(opts, r) ==
  /\ exitCode = Running
  /\ pc = "idle"
  /\ npanics < MaxPanics
  /\ pc' = "deferred"
  /\ cur' = [guard |-> "Recover", opts |-> opts, r |-> r,
             stack |-> HelperFrames \o StackUnderRecoverInWorker,
             panicking |-> TRUE, err |-> NilErr, chSeen |-> NilChan]
  /\ events' = <<>>
  /\ npanics' = npanics + 1
  /\ UNCHANGED <<heap, last, origin, hist, attached, nwraps, ch, received, dropped, exitCode>>
  /\ UNCHANGED renderVars

\* r := recover(): the value of the active panic, nil when there is none
recovered(c) == IF c.panicking THEN c.r ELSE NoValue

\* the end of both guards: os.Exit(1) when Fatal, otherwise return
finish(opts) == IF wantsExit(opts) THEN "exit" ELSE "return"

Finish(evs) ==
  /\ events' = Append(evs, finish(cur.opts))
  /\ IF finish(cur.opts) = "exit"
     THEN pc' = "exited" /\ exitCode' = exitStatus
     ELSE pc' = "returned" /\ exitCode' = exitCode

\* the heap and its bookkeeping after WrapRecovered returned w
Allocated(w) ==
  /\ heap' = w.heap
  /\ origin' = origin \o <<"New", "WrapRecovered">>
  /\ hist' = hist \o <<<<>>, <<>>>>
  /\ attached' = attached \o <<<<>>, <<>>>>

\* Recover, from its entry to the call of callback or to its end
RunRecover ==
  /\ exitCode = Running
  /\ pc = "deferred"
  /\ cur.guard = "Recover"
  /\ LET r == recovered(cur)
     IN IF r = NoValue
        THEN /\ pc' = "returned"
             /\ UNCHANGED <<heap, origin, hist, attached, cur, events, exitCode>>
        ELSE LET w == WrapRecovered(heap, cur.opts, r, cur.stack)
             IN /\ Allocated(w)
                /\ cur' = [cur EXCEPT !.panicking = FALSE, !.err = w.res]
                /\ IF wantsDelivery(cur.opts)
                   THEN /\ pc' = "callback"
                        /\ events' = <<"recovered", "callback">>
                        /\ exitCode' = exitCode
                   ELSE Finish(<<"recovered">>)
  /\ UNCHANGED <<last, nwraps, npanics, ch, received, dropped>>
  /\ UNCHANGED renderVars

\* callback(err) returns; Recover runs to its end
CallbackReturn ==
  /\ exitCode = Running
  /\ pc = "callback"
  /\ Finish(Append(events, "callback returned"))
  /\ UNCHANGED <<heap, last, origin, hist, attached, nwraps, cur, npanics, ch, received, dropped>>
  /\ UNCHANGED renderVars

\* RecoverToChannel, from its entry to its end
RunRecoverToChannel ==
  /\ exitCode = Running
  /\ pc = "deferred"
  /\ cur.guard = "RecoverToChannel"
  /\ LET r == recovered(cur)
     IN IF r = NoValue
        THEN /\ pc' = "returned"
             /\ UNCHANGED <<heap, origin, hist, attached, cur, events, exitCode, ch, received, dropped>>
        ELSE LET w == WrapRecovered(heap, cur.opts, r, cur.stack)
                 s == trySend(ch, w.res)
             IN /\ Allocated(w)
                /\ cur' = [cur EXCEPT !.panicking = FALSE, !.err = w.res, !.chSeen = ch]
                /\ IF wantsDelivery(cur.opts)
                   THEN /\ ch' = s.ch
                        /\ received' = IF s.handed THEN received \cup {w.res} ELSE received
                        /\ dropped' = IF s.sent \/ s.parked THEN dropped
                                       ELSE dropped \cup {w.res}
                        /\ IF s.parked
                           THEN /\ pc' = "blocked"
                                /\ events' = <<"recovered", "blocked">>
                                /\ exitCode' = exitCode
                           ELSE Finish(<<"recovered", IF s.sent THEN "sent" ELSE "dropped">>)
                   ELSE /\ UNCHANGED <<ch, received, dropped>>
                        /\ Finish(<<"recovered">>)
  /\ UNCHANGED <<last, nwraps, npanics>>
  /\ UNCHANGED renderVars

\* the guard has returned: the guarded function returns to its caller
Return ==
  /\ exitCode = Running
  /\ pc = "returned"
  /\ pc' = "idle"
  /\ UNCHANGED <<heap, last, origin, hist, attached, nwraps, cur, events, npanics, ch, received, dropped, exitCode>>
  /\ UNCHANGED renderVars

\* ch = make(chan error, c), before the guard is installed
MakeChan(c) ==
  /\ exitCode = Running
  /\ pc = "idle"
  /\ ~ch.made
  /\ ch' = makeChan(c)
  /\ UNCHANGED <<heap, last, origin, hist, attached, nwraps, pc, cur, events, npanics, received, dropped, exitCode>>
  /\ UNCHANGED renderVars

\* a receiver runs  <-ch : it takes the oldest queued value, or parks
Receive ==
  /\ exitCode = Running
  /\ ch.made
  /\ ~ch.waiting
  /\ IF ch.buf # <<>>
     THEN /\ received' = received \cup {Head(ch.buf)}
          /\ ch' = [ch EXCEPT !.buf = Tail(@)]
     ELSE /\ received' = received
          /\ ch' = [ch EXCEPT !.waiting = TRUE]
  /\ UNCHANGED <<heap, last, origin, hist, attached, nwraps, pc, cur, events, npanics, dropped, exitCode>>
  /\ UNCHANGED renderVars

\* another goroutine queues one of its own errors on the channel
OtherSend(err) ==
  /\ exitCode = Running
  /\ ch.made
  /\ ~ch.waiting
  /\ Len(ch.buf) < ch.cap
  /\ ch' = [ch EXCEPT !.buf = Append(@, err)]
  /\ UNCHANGED <<heap, last, origin, hist, attached, nwraps, pc, cur, events, npanics, received, dropped, exitCode>>
  /\ UNCHANGED renderVars

Next ==
  \/ \E err \in Errs(heap) \ {NilErr} : Errorf(err)
  \/ \E err \in Errs(heap), site \in CallSites : DoWrap(err, site)
  \/ \E err \in Errs(heap), msg \in FrameMessages, site \in OkSites :
       DoWrapWithMessage(err, msg, site)
  \/ \E err \in Errs(heap), fields \in FieldArgs, site \in OkSites :
       DoWrapWithFields(err, fields, site)
  \/ \E opts \in {NilOpts, RecoverOpts(TRUE, FALSE, FALSE)},
        r \in {StringValue("boom")} \cup WrapperValues(heap) : DoWrapRecovered(opts, r)

Spec == Init /\ [][Next]_vars

NextRecover ==
  \/ \E guard \in Guards, opts \in AllOpts,
        r \in {NoValue} \cup PanicValues :
       GuardedCall(guard, opts, r)
  \/ \E opts \in {NilOpts, RecoverOpts(TRUE, FALSE, FALSE)} :
       GuardedWorker(opts, StringValue("boom"))
  \/ RunRecover
  \/ CallbackReturn
  \/ RunRecoverToChannel
  \/ Return
  \/ \E c \in 0..MaxCap : MakeChan(c)
  \/ Receive
  \/ OtherSend(1)

SpecRecover == Init /\ [][NextRecover]_vars

\* ================================================================ claims
RECURSIVE ChainHasWrapper(_, _)
\* some failure on id's Unwrap chain (id included) is an ErrorWrapper
ChainHasWrapper(h, id) ==
  IF id = NilErr \/ id > Len(h) THEN FALSE
  ELSE h[id].kind = "ew" \/ ChainHasWrapper(h, h[id].inner)

Wrappers == {id \in 1..Len(heap) : heap[id].kind = "ew"}

\* C1: Wrap(nil), WrapWithMessage(nil, m) and WrapWithFields(nil, fields...)
\* return nil, allocate nothing and leave every existing failure unchanged.
C1_NilPropagation ==
  [][(last'.op \in WrapOps /\ last'.arg = NilErr)
       => (last'.res = NilErr /\ heap' = heap)]_vars

C1_Witness ==
  /\ last.op = "WrapWithFields"
  /\ last.arg = NilErr
  /\ last.res = NilErr
  /\ Wrappers # {}

\* C2: for every non-nil failure f, Wrap(f) is non-nil and the message of
\* the result equals the message of f.
C2_WrapKeepsMessage ==
  (last.op = "Wrap" /\ last.arg # NilErr)
    => (last.res # NilErr /\ Error(heap, last.res) = Error(heap, last.arg))

\* the frame a wrap call records: its message and the location of its caller
IsFrameOfCall(fr, call) ==
  /\ fr.message = call.msg
  /\ fr.file = (IF call.site.ok THEN call.site.file ELSE "unknown")
  /\ fr.line = (IF call.site.ok THEN call.site.line ELSE 0)

\* C3: wrap operations applied to a wrapper return that same instance; an
\* instance made by a wrap call holds exactly one frame per call that
\* returned it, the newest first, and its cause is the failure given to the
\* first call.
C3_Flattening ==
  /\ (last.op \in WrapOps /\ last.arg \in Wrappers) => last.res = last.arg
  /\ \A id \in 1..Len(heap) :
       origin[id] = "wrap" =>
         LET n == Len(hist[id])
         IN /\ id \in Wrappers
            /\ n >= 1
            /\ Len(heap[id].frames) = n
            /\ \A i \in 1..n : IsFrameOfCall(heap[id].frames[i], hist[id][n - i + 1])
            /\ heap[id].inner = hist[id][1].arg
            /\ \A k \in 2..n : ChainHasWrapper(heap, hist[id][k].arg)

C3_Witness ==
  \E id \in Wrappers :
    /\ origin[id] = "wrap"
    /\ Len(hist[id]) = 2
    /\ hist[id][1].arg = 1
    /\ hist[id][2].arg = id
    /\ hist[id][1].op = "Wrap"
    /\ hist[id][2].op = "WrapWithMessage"
    /\ heap[id].frames[1].message = "a"
    /\ heap[id].frames[2].file = "unknown"

\* C4: the cause of an ErrorWrapper is never an ErrorWrapper and has none on
\* its Unwrap chain.
C4_CauseNeverWrapped ==
  \A id \in Wrappers : ~ChainHasWrapper(heap, heap[id].inner)

C4_Witness ==
  /\ last.op \in WrapOps
  /\ last.arg # NilErr
  /\ heap[last.arg].kind = "wrapping"
  /\ ChainHasWrapper(heap, last.arg)
  /\ last.res \in Wrappers
  /\ last.res # last.arg

\* the values attached under key k
ValuesOf(list, k) == {list[i].Value : i \in {j \in 1..Len(list) : list[j].Key = k}}

\* C5: the field list of a wrapper is the concatenation, in call order, of
\* the fields given to WrapWithFields; every attached key is found by Get.
C5_FieldsAccumulate ==
  \A id \in Wrappers :
    /\ FieldsOf(heap, id) = attached[id]
    /\ \A i \in 1..Len(attached[id]) :
         Get(FieldsOf(heap, id), attached[id][i].Key)
           \in ValuesOf(attached[id], attached[id][i].Key)

C5_Witness ==
  \E id \in Wrappers :
    /\ Len(hist[id]) = 2
    /\ hist[id][1].op = "WrapWithFields"
    /\ hist[id][2].op = "WrapWithFields"
    /\ Len(attached[id]) = 3
    /\ attached[id][1].Key = "k2"
    /\ attached[id][3] = [Key |-> "k1", Value |-> 1]

\* ---- C11
\* the frames that wrap calls recorded in instance id and that are also found
\* in instance res
SharedFrames(h, id, res) ==
  {i \in 1..Len(hist[id]) :
     \E j \in 1..Len(h[res].frames) : h[res].frames[j] = h[id].frames[i]}

\* fr holds, in order, frames of the call stack and nothing else
FromStack(fr, stack) ==
  \E pos \in [1..Len(fr) -> 1..Len(stack)] :
    /\ \A i \in 1..Len(fr) :
         /\ stack[pos[i]].File = fr[i].file
         /\ stack[pos[i]].Line = fr[i].line
         /\ fr[i].message = ""
    /\ \A i, j \in 1..Len(fr) : i < j => pos[i] < pos[j]

\* C11: WrapRecovered(opts, r) returns a newly constructed Wrapped Error whose
\* cause is a fresh plain failure carrying r's message; it never extends an
\* existing instance: every failure that existed before the call, r included
\* when it is a Wrapped Error, keeps its cause, frames and fields; the result
\* has no fields, its frames are those of the call stack of this call, and no
\* frame that a wrap call recorded in r is found in it.
C11_WrapRecoveredIsFresh ==
  /\ [](last.op = "WrapRecovered" =>
          LET res == last.res
              message == IF last.arg = NilErr THEN <<"boom">> ELSE Error(heap, last.arg)
          IN /\ res = Len(heap)
             /\ origin[res] = "WrapRecovered"
             /\ heap[res].kind = "ew"
             /\ heap[res].inner = res - 1
             /\ heap[res - 1] = PlainError(message)
             /\ origin[res - 1] = "New"
             /\ ~heap[res].fields.ptr
             /\ heap[res].fields.list = <<>>
             /\ FromStack(heap[res].frames, StackDirect)
             /\ last.arg # NilErr =>
                  /\ last.arg < res - 1
                  /\ SharedFrames(heap, last.arg, res) = {})
  /\ [][last'.op = "WrapRecovered" =>
          /\ Len(heap') = Len(heap) + 2
          /\ SubSeq(heap', 1, Len(heap)) = heap]_vars

\* WrapRecovered has been handed a Wrapped Error that carries a frame and a
\* field, and has captured the stack
C11_Witness ==
  /\ last.op = "WrapRecovered"
  /\ IsWrapper(heap, last.arg)
  /\ heap[last.arg].frames # <<>>
  /\ heap[last.arg].fields.list # <<>>
  /\ heap[last.res].frames # <<>>
  /\ last.res # last.arg

\* ---------------------------------------------------- claims on recovery
\* the guard of the current call has run to its end
Completed == cur.guard # "none" /\ pc \in {"returned", "exited", "idle"}

Panicked == cur.r # NoValue

\* the message of a recovered value: Error() of a failure, the value as text
\* otherwise
MessageOf(r) ==
  IF r.t = "error" THEN Error(heap, r.id)
  ELSE IF r.t = "string" THEN <<r.s>>
  ELSE IF r.n = 42 THEN <<"42">>
  ELSE <<"?">>

Count(seq, x) == Cardinality({i \in 1..Len(seq) : seq[i] = x})

Occurs(seq, x) == \E i \in 1..Len(seq) : seq[i] = x

RecoverOnlySet == ~cur.opts.isNil /\ cur.opts.RecoverOnly

FatalSet == ~cur.opts.isNil /\ cur.opts.Fatal

\* the channel accepts a value at once: a free buffer slot or a parked receiver
CanAccept(c) == c.made /\ (c.waiting \/ Len(c.buf) < c.cap)

\* C6: a panic with value r under Recover without RecoverOnly: callback runs
\* exactly once, before Recover ends, with a wrapper whose message is r's
\* message, and the panic stops; without a panic Recover does nothing.
C6_RecoverCallsCallbackOnce ==
  /\ [](cur.guard = "Recover" =>
          /\ pc = "callback" =>
               /\ events = <<"recovered", "callback">>
               /\ cur.err \in Wrappers
               /\ Error(heap, cur.err) = MessageOf(cur.r)
               /\ exitCode = Running
          /\ (Completed /\ Panicked /\ ~RecoverOnlySet) =>
               /\ Count(events, "callback") = 1
               /\ Len(events) = 4
               /\ events[2] = "callback"
               /\ events[3] = "callback returned"
               /\ cur.err \in Wrappers
               /\ Error(heap, cur.err) = MessageOf(cur.r)
               /\ ~cur.panicking
          /\ (Completed /\ ~Panicked) =>
               /\ events = <<>>
               /\ cur.err = NilErr
               /\ pc # "exited")
  /\ [][(pc = "deferred" /\ pc' # "deferred" /\ cur.guard = "Recover" /\ ~Panicked)
          => (pc' = "returned"
              /\ UNCHANGED <<heap, cur, events, ch, received, dropped, exitCode>>)]_vars

C6_Witness ==
  /\ cur.guard = "Recover"
  /\ cur.opts = NilOpts
  /\ cur.r = StringValue("boom")
  /\ pc = "returned"
  /\ events = <<"recovered", "callback", "callback returned", "return">>
  /\ Error(heap, cur.err) = <<"boom">>

\* C7 as stated: with RecoverOnly nothing is delivered and the guarded
\* function returns normally to its caller.
C7_RecoverOnlyReturns ==
  (Panicked /\ RecoverOnlySet) =>
    /\ pc # "callback"
    /\ ~Occurs(events, "callback")
    /\ ~Occurs(events, "sent")
    /\ ~Occurs(events, "dropped")
    /\ Completed => (pc # "exited" /\ ~cur.panicking)

\* C7 (amended): with RecoverOnly nothing is delivered: no callback, no send
\* attempt, the error never reaches the channel; the panic stops; the
\* guarded function returns normally exactly when Fatal is not set, and the
\* process exits with status 1 when it is.
C7_RecoverOnlyNeverDelivers ==
  (Panicked /\ RecoverOnlySet) =>
    /\ pc # "callback"
    /\ ~Occurs(events, "callback")
    /\ ~Occurs(events, "sent")
    /\ ~Occurs(events, "dropped")
    /\ Completed =>
         /\ ~cur.panicking
         /\ cur.err \notin received
         /\ ~Occurs(ch.buf, cur.err)
         /\ (pc = "exited") <=> FatalSet
         /\ ~FatalSet => events = <<"recovered", "return">>

C7_Witness ==
  /\ cur.guard = "RecoverToChannel"
  /\ cur.opts = RecoverOpts(FALSE, TRUE, FALSE)
  /\ Panicked
  /\ pc = "idle"
  /\ events = <<"recovered", "return">>
  /\ CanAccept(ch)

\* C8: the process exits, with status 1, exactly when a panic was recovered
\* and Fatal is set, and only after the delivery step: after callback has
\* returned, after the one send attempt, or with no delivery under
\* RecoverOnly.
C8_FatalExitAfterDelivery ==
  /\ exitCode # Running =>
       /\ exitCode = 1
       /\ pc = "exited"
       /\ Panicked
       /\ FatalSet
       /\ events[Len(events)] = "exit"
       /\ Count(events, "exit") = 1
       /\ events \in
            IF RecoverOnlySet THEN {<<"recovered", "exit">>}
            ELSE IF cur.guard = "Recover"
            THEN {<<"recovered", "callback", "callback returned", "exit">>}
            ELSE {<<"recovered", "sent", "exit">>, <<"recovered", "dropped", "exit">>}
  /\ (Completed /\ Panicked /\ FatalSet) => (pc = "exited" /\ exitCode = 1)
  /\ pc \in {"deferred", "callback"} => exitCode = Running

C8_Witness ==
  /\ pc = "exited"
  /\ exitCode = 1
  /\ cur.guard = "Recover"
  /\ cur.opts = RecoverOpts(FALSE, FALSE, TRUE)
  /\ events = <<"recovered", "callback", "callback returned", "exit">>

\* C9 as stated: one send attempt per recovered panic; a sent error is on
\* the channel once; a dropped error is never seen on the channel and
\* RecoverToChannel still returns.
C9_DropStillReturns ==
  /\ pc # "blocked"
  /\ (cur.guard = "RecoverToChannel" /\ Completed /\ Panicked /\ ~RecoverOnlySet) =>
       /\ Count(events, "sent") + Count(events, "dropped") = 1
       /\ Occurs(events, "sent") <=> CanAccept(cur.chSeen)
       /\ Occurs(events, "sent") =>
            Count(ch.buf, cur.err) + (IF cur.err \in received THEN 1 ELSE 0) = 1
       /\ Occurs(events, "dropped") => (cur.err \in dropped /\ pc # "exited")
  /\ \A id \in dropped : id \notin received /\ ~Occurs(ch.buf, id)

\* C9 (amended): RecoverToChannel makes one send attempt per recovered panic
\* and never blocks; the error is delivered, once and with the panic's
\* message, exactly when the channel can accept it at once; otherwise it is
\* dropped and never seen on the channel, and RecoverToChannel still runs to
\* its end: it returns, or exits the process when Fatal is set.
C9_SendNeverBlocks ==
  /\ pc # "blocked"
  /\ (cur.guard = "RecoverToChannel" /\ Completed /\ Panicked /\ ~RecoverOnlySet) =>
       /\ Count(events, "sent") + Count(events, "dropped") = 1
       /\ Occurs(events, "sent") <=> CanAccept(cur.chSeen)
       /\ Occurs(events, "sent") =>
            /\ Count(ch.buf, cur.err) + (IF cur.err \in received THEN 1 ELSE 0) = 1
            /\ Error(heap, cur.err) = MessageOf(cur.r)
       /\ Occurs(events, "dropped") => cur.err \in dropped
       /\ (pc = "exited") <=> FatalSet
  /\ \A id \in dropped : id \notin received /\ ~Occurs(ch.buf, id)

C9_Witness ==
  /\ cur.guard = "RecoverToChannel"
  /\ cur.opts = NilOpts
  /\ events = <<"recovered", "dropped", "return">>
  /\ ch.made
  /\ ch.cap = 0
  /\ ~cur.chSeen.waiting
  /\ ch.waiting
  /\ cur.err \in dropped
  /\ received = {}

AllFalseOpts == RecoverOpts(FALSE, FALSE, FALSE)

\* C10: nil options behave as options with every flag off: WrapRecovered
\* returns the same error with the stack captured, delivery is attempted, the
\* process keeps running and the guard ends normally.
C10_NilOptsAreDefaults ==
  /\ (pc = "deferred" /\ Panicked) =>
       WrapRecovered(heap, NilOpts, cur.r, cur.stack)
         = WrapRecovered(heap, AllFalseOpts, cur.r, cur.stack)
  /\ wantsDelivery(NilOpts) = wantsDelivery(AllFalseOpts)
  /\ finish(NilOpts) = finish(AllFalseOpts)
  /\ (Completed /\ Panicked /\ cur.opts \in {NilOpts, AllFalseOpts}) =>
       /\ cur.err \in Wrappers
       /\ heap[cur.err].frames = captureStackTrace(cur.stack)
       /\ (\E k \in 1..Len(cur.stack) : cur.stack[k].File \in {"main.go", "svc.go"})
            => heap[cur.err].frames # <<>>
       /\ \A i \in 1..Len(heap[cur.err].frames) :
            heap[cur.err].frames[i].file \in {"main.go", "svc.go"}
       /\ Error(heap, cur.err) = MessageOf(cur.r)
       /\ IF cur.guard = "Recover"
          THEN events = <<"recovered", "callback", "callback returned", "return">>
          ELSE events \in {<<"recovered", "sent", "return">>,
                           <<"recovered", "dropped", "return">>}
       /\ pc # "exited"
       /\ exitCode = Running
       /\ ~cur.panicking

C10_Witness ==
  /\ Completed
  /\ cur.opts = NilOpts
  /\ cur.guard = "RecoverToChannel"
  /\ cur.r = IntValue(42)
  /\ events = <<"recovered", "sent", "return">>
  /\ cur.err \in received

\* ---- C12
\* the frames of the call stack the walk starts from: below the three frames
\* of runtime.Callers, captureStackTrace and WrapRecovered
Walked(stack) == SubSeq(stack, 4, Len(stack))

\* s occurs in fn at position i
OccursAt(fn, s, i) ==
  /\ i + Len(s) - 1 <= Len(fn)
  /\ \A k \in 1..Len(s) : fn[i + k - 1] = s[k]

IsInternalName(fn) ==
  \/ OccursAt(fn, StrRuntimeDot, 1)
  \/ \E i \in 1..Len(fn), s \in {StrLogSlogDot, StrEncodingJsonDot, StrDotRecover,
                                  StrDotSlogGroup} : OccursAt(fn, s, i)

\* fr lists frames of the stack in the order of the stack, each one taken
\* from a call that is not internal
InWalkOrder(fr, stack) ==
  \E pos \in [1..Len(fr) -> 1..Len(stack)] :
    /\ \A i \in 1..Len(fr) :
         /\ stack[pos[i]].File = fr[i].file
         /\ stack[pos[i]].Line = fr[i].line
         /\ ~IsInternalName(stack[pos[i]].Function)
         /\ ~IsInternalName(fr[i].funcName)
    /\ \A i, j \in 1..Len(fr) : i < j => pos[i] < pos[j]

\* C12: the frame list of an error produced by panic recovery is empty when
\* WithoutStack is set; otherwise, for a panic raised in a function guarded
\* by Recover, it is non-empty, in stack-walk order (innermost call first),
\* and holds no frame of an internal function.
C12_RecoveredFrames ==
  (cur.err # NilErr) =>
     LET fr == heap[cur.err].frames
     IN IF ~cur.opts.isNil /\ cur.opts.WithoutStack
        THEN fr = <<>>
        ELSE cur.guard = "Recover" =>
               /\ fr # <<>>
               /\ InWalkOrder(fr, Walked(cur.stack))

\* C12 without the promise of a non-empty list
C12_RecoveredFramesOrdered ==
  (cur.err # NilErr) =>
     LET fr == heap[cur.err].frames
     IN IF ~cur.opts.isNil /\ cur.opts.WithoutStack
        THEN fr = <<>>
        ELSE InWalkOrder(fr, Walked(cur.stack))

\* -------------------------------------------------------------- rendering
\* values of attributes and of JSON entries: a text (a list of pieces, as
\* Error returns it), a number, a list of frame maps, a list of frameJSON
TextValue(s) == [t |-> "string", s |-> s, n |-> 0, a |-> <<>>]
NumValue(n) == [t |-> "number", s |-> <<>>, n |-> n, a |-> <<>>]
ListValue(a) == [t |-> "list", s |-> <<>>, n |-> 0, a |-> a]
StructsValue(a) == [t |-> "structs", s |-> <<>>, n |-> 0, a |-> a]

\* slog.String(key, s), slog.Any(key, v), slog.Group(name, attrs...)
slogString(key, s) == [Key |-> key, Value |-> TextValue(s)]
slogAny(key, v) == [Key |-> key, Value |-> v]
slogGroupOf(name, attrs) == [Key |-> name, attrs |-> attrs]

\* the map of a frame with the message key always set
frameEntryAlwaysMessage(f) ==
  [function |-> f.funcName, file |-> f.file, line |-> f.line, message |-> f.message]

\* the map slogGroup builds for a frame: message only when it is not empty
frameEntry(f) ==
  IF f.message # ""
  THEN [function |-> f.funcName, file |-> f.file, line |-> f.line, message |-> f.message]
  ELSE [function |-> f.funcName, file |-> f.file, line |-> f.line]

\* the attributes slogGroup appends for the fields, in stored order
fieldAttrs(list) == [i \in 1..Len(list) |-> slogAny(list[i].Key, NumValue(list[i].Value))]

\* the fixed group of a nil failure
nilGroup(name) ==
  slogGroupOf(name,
    << slogString("error_text", <<"nil">>),
       slogAny("stack_trace", ListValue(<<[message |-> "nil"]>>)) >>)

\* slogGroup as in the revision without fields: a failure that is not a
\* Wrapped Error is rendered with a stack_trace of one frame holding its message
slogGroupPlainWithTrace(h, err, name) ==
  IF err = NilErr THEN [heap |-> h, res |-> nilGroup(name)]
  ELSE LET ew == errorsAs(h, err)
           baseErr == IF ew # NilErr THEN h[ew].inner ELSE err
           frames == IF ew # NilErr
                     THEN [i \in 1..Len(h[ew].frames) |-> frameEntry(h[ew].frames[i])]
                     ELSE <<[message |-> Error(h, baseErr)]>>
       IN [heap |-> h,
           res |-> slogGroupOf("error",
                     << slogString("error_text", Error(h, baseErr)),
                        slogAny("stack_trace", ListValue(frames)) >>
                     \o (IF ew # NilErr /\ h[ew].fields.ptr
                         THEN fieldAttrs(h[ew].fields.list) ELSE <<>>))]

\* slogGroup(err, name): the group and the heap it leaves
slogGroup(h, err, name) ==
  IF err = NilErr THEN [heap |-> h, res |-> nilGroup(name)]
  ELSE LET ew == errorsAs(h, err)
           baseErr == IF ew # NilErr THEN h[ew].inner ELSE err
           frames == IF ew # NilErr
                     THEN [i \in 1..Len(h[ew].frames) |-> frameEntry(h[ew].frames[i])]
                     ELSE <<[message |-> Error(h, baseErr)]>>
           attrs0 == <<slogString("error_text", Error(h, baseErr))>>
           attrs1 == IF ew # NilErr /\ Len(h[ew].frames) > 0
                     THEN Append(attrs0, slogAny("stack_trace", ListValue(frames)))
                     ELSE attrs0
           attrs2 == IF ew # NilErr /\ h[ew].fields.ptr /\ Len(h[ew].fields.list) > 0
                     THEN attrs1 \o fieldAttrs(h[ew].fields.list)
                     ELSE attrs1
       IN [heap |-> h, res |-> slogGroupOf("error", attrs2)]

SlogGroup(h, err) == slogGroup(h, err, "error")

SlogGroupNamed(h, err, name) == slogGroup(h, err, name)

\* type frameJSON struct { File; Function; Line; Message }
frameJSON(f) ==
  [File |-> f.file, Function |-> f.funcName, Line |-> f.line, Message |-> f.message]

\* a frameJSON encoded with the message entry always written
marshalFrameNoOmit(fj) ==
  [function |-> fj.Function, file |-> fj.File, line |-> fj.Line, message |-> fj.Message]

\* a frameJSON encoded by its tags: "message,omitempty" leaves out an empty
\* message
marshalFrame(fj) ==
  IF fj.Message # ""
  THEN [function |-> fj.Function, file |-> fj.File, line |-> fj.Line, message |-> fj.Message]
  ELSE [function |-> fj.Function, file |-> fj.File, line |-> fj.Line]

\* out[key] = value  on a map
mapSet(out, key, value) ==
  [k \in DOMAIN out \cup {key} |-> IF k = key THEN value ELSE out[k]]

RECURSIVE setFields(_, _)
\* for _, kv := range e.fields.list { out[kv.Key] = kv.Value }
setFields(out, list) ==
  IF list = <<>> THEN out
  ELSE setFields(mapSet(out, Head(list).Key, NumValue(Head(list).Value)), Tail(list))

\* json.Marshal(out): the JSON object, one entry per key of the map
jsonMarshal(out) ==
  [k \in DOMAIN out |->
     IF out[k].t = "structs"
     THEN ListValue([i \in 1..Len(out[k].a) |-> marshalFrame(out[k].a[i])])
     ELSE out[k]]

\* MarshalJSON that turns e.frames around in place to list the oldest first
MarshalJSONReversing(h, ew) ==
  LET fr == [i \in 1..Len(h[ew].frames) |-> h[ew].frames[Len(h[ew].frames) + 1 - i]]
      stack == [i \in 1..Len(fr) |-> frameJSON(fr[i])]
      out == ("error" :> TextValue(Error(h, h[ew].inner)))
             @@ ("stack_trace" :> StructsValue(stack))
  IN [heap |-> [h EXCEPT ![ew].frames = fr],
      res |-> jsonMarshal(IF h[ew].fields.ptr THEN setFields(out, h[ew].fields.list) ELSE out)]

\* MarshalJSON that writes the fields first and the reserved entries after
MarshalJSONReservedLast(h, ew) ==
  LET stack == [i \in 1..Len(h[ew].frames) |-> frameJSON(h[ew].frames[i])]
      out == IF h[ew].fields.ptr THEN setFields(<<>>, h[ew].fields.list) ELSE <<>>
  IN [heap |-> h,
      res |-> jsonMarshal(mapSet(mapSet(out, "error", TextValue(Error(h, h[ew].inner))),
                                 "stack_trace", StructsValue(stack)))]

\* (e *ErrorWrapper).MarshalJSON(): the JSON object and the heap it leaves
MarshalJSON(h, ew) ==
  LET stack == [i \in 1..Len(h[ew].frames) |-> frameJSON(h[ew].frames[i])]
      out == ("error" :> TextValue(Error(h, h[ew].inner)))
             @@ ("stack_trace" :> StructsValue(stack))
  IN [heap |-> h,
      res |-> jsonMarshal(IF h[ew].fields.ptr /\ Len(h[ew].fields.list) > 0
                          THEN setFields(out, h[ew].fields.list) ELSE out)]

\* the number of wrap calls and allocations so far
Gen == nwraps + Len(heap)

\* the bookkeeping of a rendering
Shown(op, arg, name, out) ==
  /\ shown' = [op |-> op, arg |-> arg, name |-> name, out |-> out, n |-> 1 - shown.n,
               gen |-> Gen,
               again |-> (shown.op = op /\ shown.arg = arg /\ shown.name = name
                          /\ shown.gen = Gen)]
  /\ UNCHANGED <<last, origin, hist, attached, nwraps, handed, named, units>>
  /\ UNCHANGED recoverVars

DoSlogGroup(err) ==
  /\ exitCode = Running
  /\ LET r == SlogGroup(heap, err)
     IN /\ heap' = r.heap
        /\ Shown("SlogGroup", err, "error", r.res)

DoSlogGroupNamed(err, name) ==
  /\ exitCode = Running
  /\ LET r == SlogGroupNamed(heap, err, name)
     IN /\ heap' = r.heap
        /\ Shown("SlogGroupNamed", err, name, r.res)

\* json.Marshal(err) on a Wrapped Error
DoMarshalJSON(ew) ==
  /\ exitCode = Running
  /\ IsWrapper(heap, ew)
  /\ LET r == MarshalJSON(heap, ew)
     IN /\ heap' = r.heap
        /\ Shown("MarshalJSON", ew, "", r.res)

GroupNames == {"db"}

\* the variadic argument lists of the rendered chains: a plain key, and the
\* keys MarshalJSON itself writes
RenderFieldArgs ==
  { <<Field("k1", 1), Field("k2", 2)>>,
    <<Field("error", 7), Field("stack_trace", 8)>> }

\* the chain under construction: the failure allocated last
Newest == {Len(heap)}

NextRender ==
  \/ \E err \in Newest \cap Wrappers : Errorf(err)
  \/ \E err \in Newest, msg \in FrameMessages, site \in OkSites :
       DoWrapWithMessage(err, msg, site)
  \/ \E err \in Newest, fields \in RenderFieldArgs, site \in OkSites :
       DoWrapWithFields(err, fields, site)
  \/ DoWrapRecovered(RecoverOpts(TRUE, FALSE, FALSE), StringValue("boom"))
  \/ \E err \in Errs(heap) : DoSlogGroup(err)
  \/ \E err \in Errs(heap), name \in GroupNames : DoSlogGroupNamed(err, name)
  \/ \E ew \in Errs(heap) : DoMarshalJSON(ew)

SpecRender == Init /\ [][NextRender]_vars

\* ------------------------------------------------- claims on the renderings
RECURSIVE Unwraps(_, _)
\* the failures on id's Unwrap chain, id included
Unwraps(h, id) ==
  IF id = NilErr \/ id > Len(h) THEN {} ELSE {id} \cup Unwraps(h, h[id].inner)

\* the Wrapped Error a rendering of id shows
WrapperOf(id) == CHOOSE w \in Unwraps(heap, id) : heap[w].kind = "ew"

GroupOps == {"SlogGroup", "SlogGroupNamed"}

FrameKeys(f) ==
  IF f.message # "" THEN {"function", "file", "line", "message"}
  ELSE {"function", "file", "line"}

\* m is the map of frame f: function, file, line, and message when not empty
IsMapOf(m, f) ==
  /\ DOMAIN m = FrameKeys(f)
  /\ m.function = f.funcName
  /\ m.file = f.file
  /\ m.line = f.line
  /\ f.message # "" => m.message = f.message

\* C13: the group of a Wrapped Error, or of a failure whose Unwrap chain
\* holds one, lists in this order: error_text with the root cause's message;
\* stack_trace, exactly when the frame list is not empty, with one map per
\* frame in stored order; then one attribute per attached field in stored
\* order.
C13_WrappedGroup ==
  (shown.op \in GroupOps /\ shown.gen = Gen /\ ChainHasWrapper(heap, shown.arg)) =>
     LET w == WrapperOf(shown.arg)
         fr == heap[w].frames
         fl == heap[w].fields.list
         a == shown.out.attrs
         off == IF fr # <<>> THEN 2 ELSE 1
     IN /\ Len(a) = off + Len(fl)
        /\ a[1] = [Key |-> "error_text", Value |-> TextValue(Error(heap, heap[w].inner))]
        /\ fr # <<>> =>
             /\ a[2].Key = "stack_trace"
             /\ a[2].Value.t = "list"
             /\ Len(a[2].Value.a) = Len(fr)
             /\ \A i \in 1..Len(fr) : IsMapOf(a[2].Value.a[i], fr[i])
        /\ \A k \in 1..Len(fl) :
             a[off + k] = [Key |-> fl[k].Key, Value |-> NumValue(fl[k].Value)]

\* a layer around a Wrapped Error with two frames, the newer with a message,
\* and with fields has been rendered
C13_Witness ==
  /\ shown.op = "SlogGroup"
  /\ shown.gen = Gen
  /\ shown.arg # NilErr
  /\ heap[shown.arg].kind = "wrapping"
  /\ ChainHasWrapper(heap, shown.arg)
  /\ LET w == WrapperOf(shown.arg)
     IN /\ Len(heap[w].frames) = 2
        /\ heap[w].frames[1].message = "a"
        /\ heap[w].frames[2].message = ""
        /\ Len(heap[w].fields.list) = 2
        /\ Len(shown.out.attrs) = 4

\* C14: SlogGroup(failure) returns a group named "error" and
\* SlogGroupNamed(failure, name) a group named name, for every failure.
C14_GroupIsNamed ==
  /\ shown.op = "SlogGroup" => shown.out.Key = "error"
  /\ shown.op = "SlogGroupNamed" => shown.out.Key = shown.name

\* C15: the group of a nil failure is the fixed placeholder, error_text "nil"
\* and a stack_trace of the one frame {message: "nil"}; the group of a failure
\* that is not wrapped holds error_text with its message and nothing else.
C15_UnwrappedGroup ==
  /\ (shown.op \in GroupOps /\ shown.arg = NilErr) =>
       shown.out.attrs =
         << [Key |-> "error_text", Value |-> TextValue(<<"nil">>)],
            [Key |-> "stack_trace", Value |-> ListValue(<<[message |-> "nil"]>>)] >>
  /\ (shown.op \in GroupOps /\ shown.arg # NilErr /\ ~ChainHasWrapper(heap, shown.arg)) =>
       shown.out.attrs =
         <<[Key |-> "error_text", Value |-> TextValue(Error(heap, shown.arg))]>>

\* the plain failure errors.New("e1") has been rendered
C15_Witness ==
  /\ shown.op \in GroupOps
  /\ shown.arg = 1
  /\ heap[1].kind = "plain"
  /\ shown.out.attrs[1].Value.s = <<"e1">>

\* the frame maps of the group's stack trace, none when the group has no
\* stack_trace attribute
LogFrames(g) ==
  IF Len(g.attrs) >= 2 /\ g.attrs[2].Key = "stack_trace" /\ g.attrs[2].Value.t = "list"
  THEN g.attrs[2].Value.a
  ELSE <<>>

FieldKeys(w) == {heap[w].fields.list[i].Key : i \in 1..Len(heap[w].fields.list)}

ReservedKeys == {"error", "stack_trace"}

JSONAgreesWithLog(doc, g) ==
  /\ doc["error"] = g.attrs[1].Value
  /\ doc["stack_trace"] = ListValue(LogFrames(g))

\* C16 as stated: for every Wrapped Error, whatever its field keys, the JSON
\* document's "error" entry equals the group's error_text and its
\* "stack_trace" array holds the frames of the group's stack trace in order.
C16_JSONMatchesLog ==
  (shown.op = "MarshalJSON" /\ shown.gen = Gen) =>
     JSONAgreesWithLog(shown.out, SlogGroup(heap, shown.arg).res)

\* C16: for every Wrapped Error none of whose field keys is "error" or
\* "stack_trace", the JSON document's "error" entry equals the group's
\* error_text and its "stack_trace" array holds the same frames in the same
\* order as the group's stack trace (no frames when the group has none).
C16_JSONMatchesLogUnlessShadowed ==
  (shown.op = "MarshalJSON" /\ shown.gen = Gen
     /\ FieldKeys(shown.arg) \cap ReservedKeys = {}) =>
     JSONAgreesWithLog(shown.out, SlogGroup(heap, shown.arg).res)

\* a Wrapped Error with two frames, one with a message, and two fields with
\* keys of their own has been marshalled
C16_Witness ==
  /\ shown.op = "MarshalJSON"
  /\ shown.gen = Gen
  /\ Len(heap[shown.arg].frames) = 2
  /\ heap[shown.arg].frames[1].message = ""
  /\ heap[shown.arg].frames[2].message = "a"
  /\ FieldKeys(shown.arg) = {"k1", "k2"}
  /\ Len(shown.out["stack_trace"].a) = 2

\* C17: SlogGroup, SlogGroupNamed and MarshalJSON leave every failure as it
\* was, and a rendering repeated with no wrap operation in between gives the
\* output it gave before.
C17_RenderingDoesNotMutate ==
  [][shown'.n # shown.n =>
       /\ heap' = heap
       /\ shown'.again => shown'.out = shown.out]_vars

\* a Wrapped Error with two different frames has been marshalled twice in a row
C17_Witness ==
  /\ shown.again
  /\ shown.op = "MarshalJSON"
  /\ Len(heap[shown.arg].frames) = 2
  /\ heap[shown.arg].frames[1] # heap[shown.arg].frames[2]

\* the value of the last field of list stored under key k
LastValue(list, k) ==
  list[CHOOSE i \in 1..Len(list) :
         list[i].Key = k /\ \A j \in (i + 1)..Len(list) : list[j].Key # k].Value

\* C19: the JSON document has the fields at its top level: its keys are
\* "error", "stack_trace" and the field keys; every field key holds the
\* field's value itself, also when the key is "error" or "stack_trace", whose
\* reserved entry is thereby replaced; reserved entries no field names hold
\* the root cause's message and the frames.
C19_FieldsFlattened ==
  (shown.op = "MarshalJSON" /\ shown.gen = Gen) =>
     LET w == shown.arg
         doc == shown.out
     IN /\ DOMAIN doc = ReservedKeys \cup FieldKeys(w)
        /\ \A k \in FieldKeys(w) : doc[k] = NumValue(LastValue(heap[w].fields.list, k))
        /\ "error" \notin FieldKeys(w) =>
             doc["error"] = TextValue(Error(heap, heap[w].inner))
        /\ "stack_trace" \notin FieldKeys(w) =>
             /\ doc["stack_trace"].t = "list"
             /\ Len(doc["stack_trace"].a) = Len(heap[w].frames)

\* a Wrapped Error with fields named error, stack_trace, k1 and k2 has been
\* marshalled
C19_Witness ==
  /\ shown.op = "MarshalJSON"
  /\ shown.gen = Gen
  /\ FieldKeys(shown.arg) = {"error", "stack_trace", "k1", "k2"}
  /\ shown.out["error"] = NumValue(7)
  /\ shown.out["stack_trace"] = NumValue(8)
  /\ shown.out["k1"] = NumValue(1)

\* -------------------------------------------------------------- accessors
\* (e *ErrorWrapper).StackTrace() in the revision of errors.go: return e.frames
StackTraceUncopied(h, ew) == h[ew].frames

\* (f Fields).List(): a copy of the pairs
List(list) == list

\* the bookkeeping of an accessor call that returned the slice elems
Handed(op, ew, elems, shared) ==
  /\ handed' = [op |-> op, of |-> ew, elems |-> elems, shared |-> shared,
                calls |-> Len(hist[ew]), touched |-> FALSE]
  /\ UNCHANGED <<heap, last, origin, hist, attached, nwraps, shown, named, units>>
  /\ UNCHANGED recoverVars

\* st := err.StackTrace(): cp := make(...); copy(cp, e.frames); return cp
CallStackTrace(ew) ==
  /\ exitCode = Running
  /\ IsWrapper(heap, ew)
  /\ Handed("StackTrace", ew, StackTrace(heap, ew), FALSE)

\* st := err.StackTrace() built from errors.go: the slice is e.frames itself
CallStackTraceUncopied(ew) ==
  /\ exitCode = Running
  /\ IsWrapper(heap, ew)
  /\ Handed("StackTraceUncopied", ew, StackTraceUncopied(heap, ew), TRUE)

\* f := err.Fields(): the list inside f is a copy
CallFields(ew) ==
  /\ exitCode = Running
  /\ IsWrapper(heap, ew)
  /\ Handed("Fields", ew, FieldsOf(heap, ew), FALSE)

\* l := err.Fields().List()
CallList(ew) ==
  /\ exitCode = Running
  /\ IsWrapper(heap, ew)
  /\ Handed("List", ew, List(FieldsOf(heap, ew)), FALSE)

\* the slice handed out still has the backing array of e.frames: it was not
\* copied, and no wrap call has replaced e.frames since
Aliased == handed.shared /\ handed.calls = Len(hist[handed.of])

\* the caller writes  s[i] = s[j]  on the slice it was handed
Write(i, j) ==
  /\ exitCode = Running
  /\ handed.op # "none"
  /\ i \in 1..Len(handed.elems)
  /\ j \in 1..Len(handed.elems)
  /\ handed.elems[i] # handed.elems[j]
  /\ handed' = [handed EXCEPT !.elems[i] = handed.elems[j], !.touched = TRUE]
  /\ heap' = IF Aliased
             THEN [heap EXCEPT ![handed.of].frames[i] = heap[handed.of].frames[j]]
             ELSE heap
  /\ UNCHANGED <<last, origin, hist, attached, nwraps, shown, named, units>>
  /\ UNCHANGED recoverVars

NextAccess ==
  \/ \E err \in Newest, site \in CallSites : DoWrap(err, site)
  \/ \E err \in Newest, msg \in FrameMessages, site \in OkSites :
       DoWrapWithMessage(err, msg, site)
  \/ \E err \in Newest, fields \in FieldArgs, site \in OkSites :
       DoWrapWithFields(err, fields, site)
  \/ \E ew \in Errs(heap) : CallStackTrace(ew)
  \/ \E ew \in Errs(heap) : CallStackTraceUncopied(ew)
  \/ \E ew \in Errs(heap) : CallFields(ew)
  \/ \E ew \in Errs(heap) : CallList(ew)
  \/ \E i, j \in 1..MaxWraps + 1 : Write(i, j)

SpecAccess == Init /\ [][NextAccess]_vars

\* a step in which the caller writes to the slice it was handed
IsWrite == handed'.touched /\ handed' # handed

\* C18: writing to the slice returned by StackTrace(), by Fields().List() or
\* inside the value returned by Fields() never changes the Wrapped Error:
\* every failure is after the write what it was before, and so is whatever
\* StackTrace, Fields, SlogGroup and MarshalJSON return later.
C18_AccessorsIndependent ==
  [][IsWrite =>
       /\ heap' = heap
       /\ \A ew \in Wrappers :
            /\ StackTrace(heap', ew) = StackTrace(heap, ew)
            /\ FieldsOf(heap', ew) = FieldsOf(heap, ew)
            /\ SlogGroup(heap', ew).res = SlogGroup(heap, ew).res
            /\ MarshalJSON(heap', ew).res = MarshalJSON(heap, ew).res]_vars

\* C18 for the accessors that copy (StackTrace of part_002, Fields, List)
C18_CopiesIndependent ==
  [][(IsWrite /\ handed.op # "StackTraceUncopied") => heap' = heap]_vars

\* --------------------------------------------------------- function names
\* the function names handed to simplifyFuncName: texts of up to MaxLen
\* characters over a letter, the path separator and the dot
NameChars == {"f", "/", "."}
Names == UNION {[1..n -> NameChars] : n \in 0..MaxLen}

\* the first call of simplifyFuncName, with any of the names
Simplify(fn) ==
  /\ exitCode = Running
  /\ named.fn = <<>>
  /\ named' = [fn |-> fn, res |-> simplifyFuncName(fn)]
  /\ UNCHANGED <<shown, handed, units>>
  /\ UNCHANGED wrapVars
  /\ UNCHANGED recoverVars

NextNames ==
  \/ \E fn \in Names : Simplify(fn)
  \/ \E err \in Newest, site \in CallSites : DoWrap(err, site)
  \/ \E opts \in {NilOpts}, r \in {StringValue("boom")} : DoWrapRecovered(opts, r)

SpecNames == Init /\ [][NextNames]_vars

\* the text of s after its last c, the whole of s when it has no c
AfterLast(s, c) ==
  IF \E k \in 1..Len(s) : s[k] = c
  THEN LET k == CHOOSE k \in 1..Len(s) : s[k] = c /\ \A m \in (k + 1)..Len(s) : s[m] # c
       IN [i \in 1..(Len(s) - k) |-> s[k + i]]
  ELSE s

\* the innermost name of n: after the last "." of the segment after the last "/"
Innermost(n) == AfterLast(AfterLast(n, "/"), ".")

IsBare(name) == \A i \in 1..Len(name) : name[i] \notin {"/", "."}

\* the raw names of the functions a frame of the model can come from
RawNames ==
  {s.fn : s \in CallSites} \cup {StackDirect[k].Function : k \in 1..Len(StackDirect)}

\* C20: simplifyFuncName(n) is the text after the last "." inside the segment
\* after the last "/" of n, the whole segment when it has no "."; the result
\* has no "/" and no "."; every frame recorded by a wrap operation or by
\* WrapRecovered carries the name simplified in this way.
C20_InnermostName ==
  /\ named.res = Innermost(named.fn)
  /\ IsBare(named.res)
  /\ \A w \in Wrappers :
       LET fr == heap[w].frames
           n == Len(hist[w])
       IN /\ \A i \in 1..Len(fr) :
               /\ IsBare(fr[i].funcName)
               /\ \E raw \in RawNames : fr[i].funcName = Innermost(raw)
          /\ \A i \in 1..n : fr[i].funcName = Innermost(hist[w][n + 1 - i].site.fn)
          /\ \A i \in (n + 1)..Len(fr) :
               \E k \in 1..Len(StackDirect) :
                 /\ fr[i].funcName = Innermost(StackDirect[k].Function)
                 /\ fr[i].file = StackDirect[k].File
                 /\ fr[i].line = StackDirect[k].Line

\* a name with a "." before its last "/" and another in its last segment has
\* been simplified, and a wrap call made in a method, a.io/svc.(*T).Do, has
\* recorded its frame
C20_Witness ==
  /\ named.fn = <<".", "/", ".", "f">>
  /\ named.res = <<"f">>
  /\ \E w \in Wrappers :
       /\ hist[w] # <<>>
       /\ hist[w][Len(hist[w])].site.fn = FnSvcDo
       /\ heap[w].frames[1].funcName = <<"D", "o">>

\* ------------------------------------------------------- concurrent wraps
\* ew.frames = append([]frame{fr}, ew.frames...), in its two steps: the read
\* of ew.frames for the right-hand side, and the write of the new list
readFrames(h, ew) == h[ew].frames

\* the write storing only the new frame
writeFramesOnlyNew(h, ew, fr, seen) == [h EXCEPT ![ew].frames = <<fr>>]

writeFrames(h, ew, fr, seen) == [h EXCEPT ![ew].frames = <<fr>> \o seen]

Other(u) == 3 - u

UnitMessage == <<"a", "b">>

\* nothing runs concurrently
Quiet == \A u \in Units : units[u].pc = "idle"

\* unit u calls WrapWithMessage(err, msg) on a failure whose chain holds a
\* Wrapped Error: wrapWithSkip up to the read of ew.frames
UnitBegin(u, err, site) ==
  /\ exitCode = Running
  /\ units[u].pc = "idle"
  /\ err # NilErr
  /\ errorsAs(heap, err) # NilErr
  /\ LET ew == errorsAs(heap, err)
         o == Other(u)
         overlap == units[o].pc = "read" /\ units[o].ew = ew
     IN units' = [units EXCEPT
                    ![u] = [pc |-> "read", ew |-> ew,
                            fr |-> newFrame(site, UnitMessage[u]),
                            seen |-> readFrames(heap, ew), raced |-> overlap],
                    ![o].raced = @ \/ overlap]
  /\ UNCHANGED <<shown, handed, named>>
  /\ UNCHANGED wrapVars
  /\ UNCHANGED recoverVars

\* unit u writes ew.frames and returns ew
UnitEnd(u) ==
  /\ exitCode = Running
  /\ units[u].pc = "read"
  /\ heap' = writeFrames(heap, units[u].ew, units[u].fr, units[u].seen)
  /\ units' = [units EXCEPT ![u].pc = "done"]
  /\ UNCHANGED <<last, origin, hist, attached, nwraps, shown, handed, named>>
  /\ UNCHANGED recoverVars

NextConcurrent ==
  \/ \E err \in Newest, site \in CallSites : Quiet /\ DoWrap(err, site)
  \/ \E err \in Newest, msg \in FrameMessages, site \in OkSites :
       Quiet /\ DoWrapWithMessage(err, msg, site)
  \/ \E err \in Newest \cap Wrappers : Quiet /\ Errorf(err)
  \/ \E u \in Units, err \in Errs(heap), site \in OkSites : UnitBegin(u, err, site)
  \/ \E u \in Units : UnitEnd(u)

SpecConcurrent == Init /\ [][NextConcurrent]_vars

\* C21: wrapWithSkip takes no lock and extends the frame list in two steps,
\* a read and a write. When the wrap operations on an instance run one after
\* another no frame is lost: the instance holds the frame of every finished
\* call in front of the frames the first call found, the newest first. (The
\* interleaving that loses a frame is the state C21_Witness describes.)
C21_SequentialWrapsKeepFrames ==
  /\ \A ew \in Wrappers :
       writeFrames(heap, ew, units[1].fr, readFrames(heap, ew))
         = extendWrapper(heap, ew, units[1].fr, NilFields)
  /\ \A u \in Units :
       (units[u].pc = "done" /\ ~units[u].raced) =>
          LET o == units[Other(u)]
              me == units[u]
              fr == heap[me.ew].frames
          IN IF o.pc = "done" /\ o.ew = me.ew
             THEN IF Len(o.seen) > Len(me.seen)
                  THEN fr = <<o.fr, me.fr>> \o me.seen
                  ELSE fr = <<me.fr, o.fr>> \o o.seen
             ELSE fr = <<me.fr>> \o me.seen

\* both units have wrapped the same instance, each read the frame list
\* before the other wrote it, and the list has grown by one frame only: the
\* frame of unit 1 is lost
C21_Witness ==
  /\ units[1].pc = "done"
  /\ units[2].pc = "done"
  /\ units[1].ew = units[2].ew
  /\ units[1].raced
  /\ units[2].raced
  /\ units[1].seen = units[2].seen
  /\ Len(heap[units[1].ew].frames) = Len(units[1].seen) + 1
  /\ heap[units[1].ew].frames[1] = units[2].fr
  /\ \A i \in 1..Len(heap[units[1].ew].frames) :
       heap[units[1].ew].frames[i] # units[1].fr

\* ------------------------------------------------------ deep call stacks
\* the stack below WrapRecovered when run calls descend, descend calls
\* itself n - 1 times, and the innermost call panics; run has
\* defer Recover(opts, callback)
StackUnderRecoverDeep(n) ==
  << RawFrame(FnRecover, "recover.go", 55),
     RawFrame(FnGopanic, "panic.go", 770) >>
  \o [i \in 1..n |-> RawFrame(FnMainDescend, "deep.go", IF i = 1 THEN 9 ELSE 7)]
  \o << RawFrame(FnMainRun, "main.go", 10),
        RawFrame(FnGoexit, "asm.s", 1650) >>

\* run, guarded by Recover, panics n calls of descend below itself
GuardedDescent(n, opts) ==
  /\ exitCode = Running
  /\ pc = "idle"
  /\ npanics < MaxPanics
  /\ pc' = "deferred"
  /\ cur' = [guard |-> "Recover", opts |-> opts, r |-> StringValue("boom"),
             stack |-> HelperFrames \o StackUnderRecoverDeep(n),
             panicking |-> TRUE, err |-> NilErr, chSeen |-> NilChan]
  /\ events' = <<>>
  /\ npanics' = npanics + 1
  /\ UNCHANGED <<heap, last, origin, hist, attached, nwraps, ch, received, dropped, exitCode>>
  /\ UNCHANGED renderVars

NextWalk ==
  \/ \E n \in 0..MaxCalls, opts \in {NilOpts, RecoverOpts(TRUE, FALSE, FALSE)} :
       GuardedDescent(n, opts)
  \/ RunRecover
  \/ CallbackReturn
  \/ Return

SpecWalk == Init /\ [][NextWalk]_vars

\* the positions of the application frames in a walk
AppFrames(walk) ==
  {i \in 1..Len(walk) : ~isInternalFrame(walk[i].Function)}

\* the frames of trace that record the raw frame rf
TraceEntries(trace, rf) ==
  {j \in 1..Len(trace) : /\ trace[j].funcName = simplifyFuncName(rf.Function)
                         /\ trace[j].file = rf.File
                         /\ trace[j].line = rf.Line}

\* every application frame of the walk is in the trace, as often as it is
\* in the walk
KeepsAppFrames(trace, walk) ==
  /\ Len(trace) = Cardinality(AppFrames(walk))
  /\ \A i \in AppFrames(walk) : TraceEntries(trace, walk[i]) # {}

\* C22: the frame filter loses no application frame: every frame of the
\* stack walk of captureStackTrace (skip depth 3, at most 32 program
\* counters) for which isInternalFrame is false appears in the resulting
\* trace, the last frame of the walk and a walk cut off at 32 frames included
C22_NoApplicationFrameLost ==
  (cur.err # NilErr /\ wantsStack(cur.opts)) =>
     KeepsAppFrames(heap[cur.err].frames, callers(cur.stack))

\* C22 for the walks that reach the end of the stack: their last frame is
\* runtime.goexit and nothing is lost
C22_NoApplicationFrameLostUncut ==
  (/\ cur.err # NilErr
   /\ wantsStack(cur.opts)
   /\ Len(cur.stack) - skipFrames <= maxDepth) =>
     KeepsAppFrames(heap[cur.err].frames, callers(cur.stack))

\* a walk cut off at the bound
C22_CutOff ==
  /\ cur.err # NilErr
  /\ wantsStack(cur.opts)
  /\ Len(cur.stack) - skipFrames > maxDepth
  /\ Len(callers(cur.stack)) = maxDepth

\* ------------------------------------------- a field seen by Get and in JSON
NextFields ==
  \/ \E err \in Newest \cap Wrappers : Errorf(err)
  \/ \E err \in Newest, site \in CallSites : DoWrap(err, site)
  \/ \E err \in Newest, fields \in FieldArgs, site \in OkSites :
       DoWrapWithFields(err, fields, site)
  \/ \E ew \in Errs(heap) : DoMarshalJSON(ew)

SpecFields == Init /\ [][NextFields]_vars

\* the number of fields of w with key k
Attached(w, k) ==
  Cardinality({i \in 1..Len(FieldsOf(heap, w)) : FieldsOf(heap, w)[i].Key = k})

\* C23: the observation paths agree on a field's value: for every Wrapped
\* Error and every key k attached to it, other than "error" and
\* "stack_trace", also when k was attached more than once along the chain,
\* Fields().Get(k) returns the value of the top-level entry k of the JSON
\* document.
C23_GetAgreesWithJSON ==
  (shown.op = "MarshalJSON" /\ shown.gen = Gen) =>
     \A k \in FieldKeys(shown.arg) \ ReservedKeys :
        shown.out[k] = NumValue(Get(FieldsOf(heap, shown.arg), k))

\* C23 for the keys attached once
C23_GetAgreesWithJSONOnce ==
  (shown.op = "MarshalJSON" /\ shown.gen = Gen) =>
     \A k \in FieldKeys(shown.arg) \ ReservedKeys :
        Attached(shown.arg, k) = 1 =>
           shown.out[k] = NumValue(Get(FieldsOf(heap, shown.arg), k))

\* a document of a Wrapped Error with a key attached once
C23_AttachedOnce ==
  /\ shown.op = "MarshalJSON"
  /\ shown.gen = Gen
  /\ \E k \in FieldKeys(shown.arg) \ ReservedKeys : Attached(shown.arg, k) = 1

============================================================================
